---- MODULE Spec2Model ----
(***************************************************************************)
(* figs.py: contact_plot_PF00014(other_contacts, true_positives,           *)
(* false_positives).  One call is a straight-line run through the          *)
(* statements of the function; numpy's array construction, transposition,  *)
(* indexing and broadcast addition are modelled by what they compute, and  *)
(* the plotting collaborators (mplot, matplotlib) by the record of the     *)
(* calls they receive.                                                     *)
(***************************************************************************)
EXTENDS Integers, Sequences, FiniteSets, TLC

\* ------------------------------------------------------------------ bounds
\* total number of elements over the three argument lists of one call
MaxPairs == 4

\* --------------------------------------------------------- module globals
C_CONTACT == "#f0f0f0"
C_TRUEPOS == "#fd8d3c"
C_FALSEPOS == "#6baed6"

\* ------------------------------------------------------- style dictionary
PpropsInterleaved ==
  [colors    |-> <<C_CONTACT, C_TRUEPOS, C_FALSEPOS, C_CONTACT, C_TRUEPOS, C_FALSEPOS>>,
   xlim      |-> <<1, 55>>,
   ylim      |-> <<1, 55>>,
   xticks    |-> <<0, 10, 20, 30, 40, 50, 55>>,
   yticks    |-> <<0, 10, 20, 30, 40, 50, 55>>,
   xlabel    |-> "PF00014 sites",
   ylabel    |-> "PF00014 sites",
   plotprops |-> [lw |-> 0, s |-> 25, marker |-> "o", clip_on |-> FALSE],
   theme     |-> "boxed"]

PpropsZeroBased ==
  [colors    |-> <<C_CONTACT, C_CONTACT, C_TRUEPOS, C_TRUEPOS, C_FALSEPOS, C_FALSEPOS>>,
   xlim      |-> <<0, 55>>,
   ylim      |-> <<1, 55>>,
   xticks    |-> <<0, 10, 20, 30, 40, 50, 55>>,
   yticks    |-> <<0, 10, 20, 30, 40, 50>>,
   xlabel    |-> "PF00014 sites",
   ylabel    |-> "PF00014 sites",
   plotprops |-> [lw |-> 0, s |-> 25, marker |-> "o", clip_on |-> FALSE],
   theme     |-> "boxed"]

\* the dict literal assigned to pprops
Pprops ==
  [colors    |-> <<C_CONTACT, C_CONTACT, C_TRUEPOS, C_TRUEPOS, C_FALSEPOS, C_FALSEPOS>>,
   xlim      |-> <<1, 55>>,
   ylim      |-> <<1, 55>>,
   xticks    |-> <<0, 10, 20, 30, 40, 50, 55>>,
   yticks    |-> <<0, 10, 20, 30, 40, 50, 55>>,
   xlabel    |-> "PF00014 sites",
   ylabel    |-> "PF00014 sites",
   plotprops |-> [lw |-> 0, s |-> 25, marker |-> "o", clip_on |-> FALSE],
   theme     |-> "boxed"]

\* the name pprops before it is bound
NoProps ==
  [colors    |-> <<>>,
   xlim      |-> <<>>,
   ylim      |-> <<>>,
   xticks    |-> <<>>,
   yticks    |-> <<>>,
   xlabel    |-> "",
   ylabel    |-> "",
   plotprops |-> [lw |-> 0, s |-> 0, marker |-> "", clip_on |-> FALSE],
   theme     |-> ""]

\* the colour list assigned to pprops['colors'] before the legend is drawn
LegendColors == <<C_CONTACT, C_TRUEPOS, C_FALSEPOS>>

\* coordinates of the three legend markers
LegendX == << <<56>>, <<56>>, <<56>> >>
LegendY == << <<52>>, <<48>>, <<44>> >>

\* the three ax.text calls
LegendText ==
  << [x |-> 57, y |-> 52, s |-> "Other contacts",  ha |-> "left", va |-> "center"],
     [x |-> 57, y |-> 48, s |-> "True positives",  ha |-> "left", va |-> "center"],
     [x |-> 57, y |-> 44, s |-> "False positives", ha |-> "left", va |-> "center"] >>

\* ------------------------------------------------------------------ inputs
\* zero-based residue indices: the two ends of the plotted range
Sites == {0, Pprops.xlim[2] - 1}

\* well-formed elements: pairs (i, j)
PairElems == {<<i, j>> : i \in Sites, j \in Sites}

\* elements that are not pairs: one component, three components
OtherElems == { <<0>>, <<0, Pprops.xlim[2] - 1, 0>> }

Elems == PairElems \cup OtherElems

ListsUpTo(n) == UNION { [1..k -> Elems] : k \in 0..n }

\* ------------------------------------------------------------------- numpy
NoArray == [ndim |-> 0, dtype |-> "none", data |-> <<>>]

Uniform(l) == \A r \in 1..Len(l) : Len(l[r]) = Len(l[1])

\* a non-empty list whose elements differ in length
Ragged(l) == l # <<>> /\ ~Uniform(l)

\* np.array(l): [] gives a 1-d array of shape (0,); n sequences of equal
\* length w give shape (n, w); sequences of different lengths give a 1-d
\* object array of the sequences (numpy releases that still accept them)
np_array(l) ==
  IF l = <<>> THEN [ndim |-> 1, dtype |-> "float64", data |-> <<>>]
  ELSE IF Uniform(l) THEN [ndim |-> 2, dtype |-> "int64", data |-> l]
  ELSE [ndim |-> 1, dtype |-> "object", data |-> l]

\* a.T: reverses the axes; a 1-d array is its own transpose
T(a) ==
  IF a.ndim = 2
  THEN [a EXCEPT !.data = [k \in 1..Len(a.data[1]) |->
                             [r \in 1..Len(a.data) |-> a.data[r][k]]]]
  ELSE a

\* a.T[k] + 1: indexing past the first axis raises IndexError; an element
\* of an object array is a Python sequence, and sequence + 1 raises
\* TypeError; otherwise 1 is added to every entry of row k
SeriesDedup(a, k) ==
  LET t == T(a) IN
  IF k + 1 > Len(t.data) THEN [err |-> "IndexError", val |-> <<>>]
  ELSE IF t.dtype = "object" THEN [err |-> "TypeError", val |-> <<>>]
  ELSE LET row == t.data[k + 1]
           keep == {r \in 1..Len(row) : \A q \in 1..(r - 1) : a.data[q] # a.data[r]}
           F[r \in 0..Len(row)] ==
             IF r = 0 THEN <<>>
             ELSE IF r \in keep THEN Append(F[r - 1], row[r] + 1) ELSE F[r - 1]
       IN  [err |-> "none", val |-> F[Len(row)]]

SeriesPadded(a, k) ==
  LET t == T(a) IN
  IF t.dtype = "object" THEN [err |-> "TypeError", val |-> <<>>]
  ELSE IF k + 1 > Len(t.data)
       THEN [err |-> "none", val |-> [r \in 1..Len(a.data) |-> 1]]
       ELSE [err |-> "none",
             val |-> [r \in 1..Len(t.data[k + 1]) |-> t.data[k + 1][r] + 1]]

Series(a, k) ==
  LET t == T(a) IN
  IF k + 1 > Len(t.data) THEN [err |-> "IndexError", val |-> <<>>]
  ELSE IF t.dtype = "object" THEN [err |-> "TypeError", val |-> <<>>]
  ELSE [err |-> "none",
        val |-> [r \in 1..Len(t.data[k + 1]) |-> t.data[k + 1][r] + 1]]

\* the index into .T used at each position of the list x, and of the list y
XIndex == <<0, 1, 0, 1, 0, 1>>

YIndexSame == <<0, 1, 0, 1, 0, 1>>

YIndex == <<1, 0, 1, 0, 1, 0>>

\* the error of the first element (in evaluation order) that raises
FirstErr(rs) ==
  IF \A p \in 1..Len(rs) : rs[p].err = "none" THEN "none"
  ELSE rs[CHOOSE p \in 1..Len(rs) :
            /\ rs[p].err # "none"
            /\ \A q \in 1..(p - 1) : rs[q].err = "none"].err

Vals(rs) == [p \in 1..Len(rs) |-> rs[p].val]

\* -------------------------------------------------------------------- state
VARIABLES
  pc,               \* the statement the call is at
  other_contacts, true_positives, false_positives,   \* the arguments
  fig,              \* figure and axes exist
  pprops,           \* the style dictionary
  oc, tp, fp,       \* the arrays
  x, y,             \* the lists of six series
  mainCall,         \* what mp.plot received
  legendCall,       \* what mp.scatter received
  labels,           \* what ax.text received, in order
  shown,            \* plt.show() was called
  log,              \* the collaborator calls of this call, in order
  err,              \* the exception leaving the function
  result            \* what the caller gets

args   == <<other_contacts, true_positives, false_positives>>
locals == <<fig, pprops, oc, tp, fp, x, y>>
drawn  == <<mainCall, legendCall, labels, shown, log>>
vars   == <<pc, args, locals, drawn, err, result>>

NoCall == [called |-> FALSE, type |-> "", x |-> <<>>, y |-> <<>>, props |-> NoProps]

Init ==
  /\ pc = "idle"
  /\ other_contacts = <<>> /\ true_positives = <<>> /\ false_positives = <<>>
  /\ fig = FALSE
  /\ pprops = NoProps
  /\ oc = NoArray /\ tp = NoArray /\ fp = NoArray
  /\ x = <<>> /\ y = <<>>
  /\ mainCall = NoCall /\ legendCall = NoCall
  /\ labels = <<>>
  /\ shown = FALSE
  /\ log = <<>>
  /\ err = "none"
  /\ result = "pending"

\* ------------------------------------------------------------------ actions
\* the caller invokes the function: fresh frame, fresh figure
Call ==
  /\ pc = "idle"
  /\ \E a \in ListsUpTo(MaxPairs) :
       \E b \in ListsUpTo(MaxPairs - Len(a)) :
         \E c \in ListsUpTo(MaxPairs - Len(a) - Len(b)) :
           /\ other_contacts' = a
           /\ true_positives' = b
           /\ false_positives' = c
  /\ pc' = "figure"
  /\ fig' = FALSE
  /\ pprops' = NoProps
  /\ oc' = NoArray /\ tp' = NoArray /\ fp' = NoArray
  /\ x' = <<>> /\ y' = <<>>
  /\ mainCall' = NoCall /\ legendCall' = NoCall
  /\ labels' = <<>>
  /\ shown' = FALSE
  /\ log' = <<>>
  /\ err' = "none"
  /\ result' = "pending"

\* an exception leaves the function: no handler, nothing after the raising
\* statement runs
RaiseAndShow(e) ==
  /\ pc' = "raised"
  /\ err' = e
  /\ result' = "exception"
  /\ shown' = TRUE
  /\ log' = Append(log, "plt.show")
  /\ UNCHANGED <<mainCall, legendCall, labels>>

Raise(e) ==
  /\ pc' = "raised"
  /\ err' = e
  /\ result' = "exception"
  /\ UNCHANGED drawn

\* fig = plt.figure(figsize=(5, 5)); ax = plt.subplot(111)
CreateFigure ==
  /\ pc = "figure"
  /\ fig' = TRUE
  /\ log' = log \o <<"plt.figure", "plt.subplot">>
  /\ pc' = "pprops"
  /\ UNCHANGED <<args, pprops, oc, tp, fp, x, y, mainCall, legendCall, labels,
                 shown, err, result>>

\* pprops = {...}
BuildProps ==
  /\ pc = "pprops"
  /\ pprops' = Pprops
  /\ pc' = "arrays"
  /\ UNCHANGED <<args, fig, oc, tp, fp, x, y, drawn, err, result>>

\* oc = np.array(other_contacts); tp = ...; fp = ...
\* numpy releases that reject sequences of different lengths raise
\* ValueError at the first such list; older releases build an object array
Arrays ==
  /\ pc = "arrays"
  /\ \E strict \in BOOLEAN :
       IF strict /\ Ragged(other_contacts)
       THEN Raise("ValueError") /\ UNCHANGED <<oc, tp, fp>>
       ELSE IF strict /\ Ragged(true_positives)
       THEN /\ oc' = np_array(other_contacts)
            /\ Raise("ValueError") /\ UNCHANGED <<tp, fp>>
       ELSE IF strict /\ Ragged(false_positives)
       THEN /\ oc' = np_array(other_contacts)
            /\ tp' = np_array(true_positives)
            /\ Raise("ValueError") /\ UNCHANGED fp
       ELSE /\ oc' = np_array(other_contacts)
            /\ tp' = np_array(true_positives)
            /\ fp' = np_array(false_positives)
            /\ pc' = "transform"
            /\ UNCHANGED <<drawn, err, result>>
  /\ UNCHANGED <<args, fig, pprops, x, y>>

\* x = [oc.T[0]+1, oc.T[1]+1, tp.T[0]+1, ...]; y = [oc.T[1]+1, oc.T[0]+1, ...]
Transform ==
  /\ pc = "transform"
  /\ LET arrs == <<oc, oc, tp, tp, fp, fp>>
         xs   == [p \in 1..6 |-> Series(arrs[p], XIndex[p])]
         ys   == [p \in 1..6 |-> Series(arrs[p], YIndex[p])]
     IN  IF FirstErr(xs) # "none"
         THEN Raise(FirstErr(xs)) /\ UNCHANGED <<x, y>>
         ELSE IF FirstErr(ys) # "none"
         THEN x' = Vals(xs) /\ Raise(FirstErr(ys)) /\ UNCHANGED y
         ELSE /\ x' = Vals(xs)
              /\ y' = Vals(ys)
              /\ pc' = "plot"
              /\ UNCHANGED <<drawn, err, result>>
  /\ UNCHANGED <<args, fig, pprops, oc, tp, fp>>

\* mp.plot(type='scatter', ax=ax, x=x, y=y, **pprops)
MainScatter ==
  /\ pc = "plot"
  /\ mainCall' = [called |-> TRUE, type |-> "scatter", x |-> x, y |-> y,
                  props |-> pprops]
  /\ log' = Append(log, "mp.plot")
  /\ pc' = "colors"
  /\ UNCHANGED <<args, locals, legendCall, labels, shown, err, result>>

\* pprops['colors'] = [C_CONTACT, C_TRUEPOS, C_FALSEPOS]
SetLegendColorsAndLimits ==
  /\ pc = "colors"
  /\ pprops' = [pprops EXCEPT !.colors = LegendColors, !.xlim = <<1, 57>>]
  /\ pc' = "legend"
  /\ UNCHANGED <<args, fig, oc, tp, fp, x, y, drawn, err, result>>

SetLegendColors ==
  /\ pc = "colors"
  /\ pprops' = [pprops EXCEPT !.colors = LegendColors]
  /\ pc' = "legend"
  /\ UNCHANGED <<args, fig, oc, tp, fp, x, y, drawn, err, result>>

\* mp.scatter(ax=ax, x=[[56], [56], [56]], y=[[52], [48], [44]], **pprops)
LegendScatter ==
  /\ pc = "legend"
  /\ legendCall' = [called |-> TRUE, type |-> "scatter", x |-> LegendX,
                    y |-> LegendY, props |-> pprops]
  /\ log' = Append(log, "mp.scatter")
  /\ pc' = "text1"
  /\ UNCHANGED <<args, locals, mainCall, labels, shown, err, result>>

\* ax.text(57, ..., ha='left', va='center', **mp.def_labelprops), k-th of three
ax_text(k) ==
  /\ labels' = Append(labels, LegendText[k])
  /\ log' = Append(log, "ax.text")
  /\ UNCHANGED <<args, locals, mainCall, legendCall, shown, err, result>>

Text1 == pc = "text1" /\ ax_text(1) /\ pc' = "text2"

Text2 == pc = "text2" /\ ax_text(2) /\ pc' = "text3"

Text3 == pc = "text3" /\ ax_text(3) /\ pc' = "show"

\* plt.show(), the last statement: the function then returns None
ShowEarly ==
  /\ pc \in {"text1", "show"}
  /\ shown' = TRUE
  /\ log' = Append(log, "plt.show")
  /\ pc' = IF pc = "show" THEN "returned" ELSE pc
  /\ result' = IF pc = "show" THEN "None" ELSE result
  /\ pc = "text1" => ~shown
  /\ UNCHANGED <<args, locals, mainCall, legendCall, labels, err>>

Show ==
  /\ pc = "show"
  /\ shown' = TRUE
  /\ log' = Append(log, "plt.show")
  /\ pc' = "returned"
  /\ result' = "None"
  /\ UNCHANGED <<args, locals, mainCall, legendCall, labels, err>>

\* the frame is discarded: no local outlives the call
Exit ==
  /\ pc \in {"returned", "raised"}
  /\ pc' = "idle"
  /\ other_contacts' = <<>> /\ true_positives' = <<>> /\ false_positives' = <<>>
  /\ fig' = FALSE
  /\ pprops' = NoProps
  /\ oc' = NoArray /\ tp' = NoArray /\ fp' = NoArray
  /\ x' = <<>> /\ y' = <<>>
  /\ mainCall' = NoCall /\ legendCall' = NoCall
  /\ labels' = <<>>
  /\ shown' = FALSE
  /\ log' = <<>>
  /\ err' = "none"
  /\ result' = "pending"

Next ==
  \/ Call
  \/ CreateFigure
  \/ BuildProps
  \/ Arrays
  \/ Transform
  \/ MainScatter
  \/ SetLegendColors
  \/ LegendScatter
  \/ Text1
  \/ Text2
  \/ Text3
  \/ Show
  \/ Exit

Spec == Init /\ [][Next]_vars

\* ------------------------------------------------------------ vocabulary
Range(l) == {l[r] : r \in 1..Len(l)}

Cats == 1..3

\* every element of the list is a pair
IsPairList(l) == \A r \in 1..Len(l) : Len(l[r]) = 2

WellFormed == \A c \in Cats : IsPairList(args[c])

Finished == pc \in {"returned", "raised"}

\* the points of the two series of category c in the main scatter call
DisplayPoints(c) ==
  {<<mainCall.x[p][r], mainCall.y[p][r]>> :
     p \in {2 * c - 1, 2 * c}, r \in 1..Len(args[c])}

\* the two display points of every element, from its first two components
Mirrored(l) ==
  {<<e[1] + 1, e[2] + 1>> : e \in Range(l)} \cup {<<e[2] + 1, e[1] + 1>> : e \in Range(l)}

LegendRendered ==
  /\ legendCall.called
  /\ legendCall.x = << <<56>>, <<56>>, <<56>> >>
  /\ legendCall.y = << <<52>>, <<48>>, <<44>> >>
  /\ legendCall.props.colors = <<C_CONTACT, C_TRUEPOS, C_FALSEPOS>>
  /\ Len(labels) = 3
  /\ <<labels[1].s, labels[2].s, labels[3].s>> =
       <<"Other contacts", "True positives", "False positives">>
  /\ \A k \in 1..3 : labels[k].x = 57 /\ labels[k].y = legendCall.y[k][1]

\* ------------------------------------------------------------------ claims

\* C1: in the main scatter call, the display points of each category are
\* exactly (i+1, j+1) and (j+1, i+1) for the pairs (i, j) of that category.
C1_MirroredPoints ==
  mainCall.called =>
    \A c \in Cats :
      /\ Len(mainCall.x[2 * c - 1]) = Len(mainCall.y[2 * c - 1])
      /\ Len(mainCall.x[2 * c]) = Len(mainCall.y[2 * c])
      /\ IsPairList(args[c]) => DisplayPoints(c) = Mirrored(args[c])

C1_Witness ==
  /\ mainCall.called
  /\ WellFormed
  /\ \E e \in Range(other_contacts) : e[1] # e[2]
  /\ Range(true_positives) # Range(other_contacts)

\* C2: the number of display points of a category is twice the number of
\* its input pairs, duplicates included, and a self-pair (i, i) gives two
\* points, both (i+1, i+1).
C2_TwicePairs ==
  mainCall.called =>
    \A c \in Cats :
      /\ args[c] # <<>>
      /\ \A p \in {2 * c - 1, 2 * c} :
           Len(mainCall.x[p]) = Len(args[c]) /\ Len(mainCall.y[p]) = Len(args[c])
      /\ \A r \in 1..Len(args[c]) :
           args[c][r][1] = args[c][r][2] =>
             \A p \in {2 * c - 1, 2 * c} :
               /\ mainCall.x[p][r] = args[c][r][1] + 1
               /\ mainCall.y[p][r] = args[c][r][1] + 1

C2_Witness ==
  /\ mainCall.called
  /\ \E c \in Cats :
       /\ Len(args[c]) = 2
       /\ args[c][1] = args[c][2]
       /\ args[c][1][1] = args[c][1][2]

\* C3: a call in which one or more category lists is empty raises no
\* exception: every category still yields its mirrored points (none for an
\* empty one) and the legend is rendered.
C3_EmptyCategoryRenders ==
  (Finished /\ WellFormed /\ \E c \in Cats : args[c] = <<>>) =>
    /\ pc = "returned"
    /\ err = "none"
    /\ \A c \in Cats : DisplayPoints(c) = Mirrored(args[c])
    /\ LegendRendered

\* C4: every call renders the legend: three markers at (56,52), (56,48),
\* (56,44) in the three category colours and the three labels at x = 57,
\* each at the y of its own marker.
C4_LegendAlways == (Finished /\ WellFormed) => LegendRendered

\* C5: both drawing calls receive axis limits [1,55] and ticks
\* {0,10,20,30,40,50,55} on both axes, whatever the input.
C5_FixedAxes ==
  \A call \in {mainCall, legendCall} :
    call.called =>
      /\ call.props.xlim = <<1, 55>>
      /\ call.props.ylim = <<1, 55>>
      /\ call.props.xticks = <<0, 10, 20, 30, 40, 50, 55>>
      /\ call.props.yticks = <<0, 10, 20, 30, 40, 50, 55>>

C5_Witness ==
  /\ mainCall.called
  /\ legendCall.called
  /\ Len(other_contacts) = 2
  /\ other_contacts[1] # other_contacts[2]

\* C6: the main scatter call gets the series in the order other_contacts,
\* true_positives, false_positives, each direct series followed by its
\* mirrored one, and the colour at each position is that of the category
\* whose series is at that position.
C6_LayerOrder ==
  mainCall.called =>
    LET cat    == <<other_contacts, true_positives, false_positives>>
        colour == <<C_CONTACT, C_TRUEPOS, C_FALSEPOS>>
        first(l)  == [r \in 1..Len(l) |-> l[r][1] + 1]
        second(l) == [r \in 1..Len(l) |-> l[r][2] + 1]
    IN  /\ Len(mainCall.x) = 6 /\ Len(mainCall.y) = 6
        /\ Len(mainCall.props.colors) = 6
        /\ \A c \in Cats :
             /\ mainCall.x[2 * c - 1] = first(cat[c])
             /\ mainCall.y[2 * c - 1] = second(cat[c])
             /\ mainCall.x[2 * c] = second(cat[c])
             /\ mainCall.y[2 * c] = first(cat[c])
             /\ mainCall.props.colors[2 * c - 1] = colour[c]
             /\ mainCall.props.colors[2 * c] = colour[c]

C6_Witness ==
  /\ mainCall.called
  /\ WellFormed
  /\ other_contacts # true_positives
  /\ true_positives # false_positives
  /\ other_contacts # false_positives
  /\ \E e \in Range(false_positives) : e \in Range(true_positives)

C9_StepOrder ==
  LET steps == <<"plt.figure", "plt.subplot", "mp.plot", "mp.scatter",
                 "ax.text", "ax.text", "ax.text", "plt.show">>
  IN  /\ Len(log) <= Len(steps)
      /\ log = SubSeq(steps, 1, Len(log))
      /\ pc = "returned" => log = steps /\ result = "None"
      /\ shown => pc = "returned" /\ mainCall.called /\ legendCall.called /\ Len(labels) = 3

C9_Witness ==
  /\ pc = "returned"
  /\ shown
  /\ Len(false_positives) = 2

\* C10 as stated: the configuration passed to the legend scatter call is
\* identical to the one passed to the main scatter call.
C10_SameConfig == legendCall.called => legendCall.props = mainCall.props

\* C10 amended: the configuration passed to the legend scatter call is the
\* one passed to the main scatter call in everything but the colour list,
\* which is replaced by the three category colours between the two calls;
\* every call starts again from the six-colour list.
C10_SameConfigButColors ==
  /\ legendCall.called =>
       /\ mainCall.called
       /\ [legendCall.props EXCEPT !.colors = mainCall.props.colors] = mainCall.props
       /\ legendCall.props.colors = <<C_CONTACT, C_TRUEPOS, C_FALSEPOS>>
       /\ pprops = legendCall.props
  /\ mainCall.called => Len(mainCall.props.colors) = 6
  /\ (mainCall.called /\ ~legendCall.called /\ pc = "colors") => pprops = mainCall.props

C10_Witness ==
  /\ legendCall.called
  /\ legendCall.props.colors # mainCall.props.colors
  /\ pc = "returned"
====
